---- MODULE Spec2Model ----
(***************************************************************************)
(* Model of the SAT -> 3-CNF -> CLIQUE reduction engine:                   *)
(*   utils/formulaParser (validateFormula, parseFormula, formulaToString,  *)
(*   transformTo3CNF) and CliqueGraphAnimation.parseFormulaToGraph.        *)
(*                                                                         *)
(* A text is a sequence of one-character strings.  The three connective    *)
(* symbols of the source are written with ASCII stand-ins:                 *)
(*   AND  "&"  for U+2227,  OR  "|"  for U+2228,  NOT  "~"  for U+00AC.    *)
(* Each of them is one UTF-16 code unit in the source, so every string     *)
(* operation of the source sees it as one character, as here.              *)
(***************************************************************************)
EXTENDS Integers, Sequences, FiniteSets, TLC

AND == "&"
OR == "|"
NOT == "~"
LPAREN == "("
RPAREN == ")"
SPACE == " "
\* a character outside [A-Za-z0-9 AND OR NOT ( ) whitespace]
BadChar == "#"

\* ---------------------------------------------------------------- bounds
\* longest text typed character by character
MaxLen == 3
\* most literal occurrences in a formula written as clauses
MaxLits == 4

\* ------------------------------------------------------- character classes
Letters == {"A", "B", "C", "D", "E", "F", "G", "X", "Y", "p", "x", "y", "z"}
DigitChars == <<"0", "1", "2", "3", "4", "5", "6", "7", "8", "9">>
Digits == {DigitChars[i] : i \in 1..10}
Whitespace == {SPACE}
\* /^[A-Za-z0-9 OR AND NOT ()\s]+$/
validChars == Letters \cup Digits \cup {OR, AND, NOT, LPAREN, RPAREN} \cup Whitespace

\* ------------------------------------------------------- string primitives
\* String(n) for a non-negative integer inside a template literal
RECURSIVE ToDigits(_)
ToDigits(n) ==
  IF n < 10 THEN <<DigitChars[n + 1]>>
  ELSE ToDigits(n \div 10) \o <<DigitChars[(n % 10) + 1]>>

\* String.prototype.split(sep) for a one-character separator: the pieces
\* between consecutive occurrences of sep, empty pieces included
split(s, sep) ==
  LET at == SelectSeq([i \in 1..Len(s) |-> i], LAMBDA i : s[i] = sep)
      first(k) == IF k = 1 THEN 1 ELSE at[k - 1] + 1
      last(k) == IF k = Len(at) + 1 THEN Len(s) ELSE at[k] - 1
  IN [k \in 1..(Len(at) + 1) |-> SubSeq(s, first(k), last(k))]

\* String.prototype.replace(/re/g, '') : drops every character of the class
removeAll(s, class) == SelectSeq(s, LAMBDA ch : ch \notin class)

RECURSIVE trimStart(_)
trimStart(s) ==
  IF s # <<>> /\ Head(s) \in Whitespace THEN trimStart(Tail(s)) ELSE s

RECURSIVE trimEnd(_)
trimEnd(s) ==
  IF s # <<>> /\ s[Len(s)] \in Whitespace THEN trimEnd(SubSeq(s, 1, Len(s) - 1)) ELSE s

\* String.prototype.trim()
trim(s) == trimEnd(trimStart(s))

\* String.prototype.startsWith(c) for one character
startsWith(s, c) == s # <<>> /\ Head(s) = c

\* String.prototype.substring(1)
substring1(s) == IF s = <<>> THEN <<>> ELSE Tail(s)

\* String.prototype.includes of the two-character string <<a, b>>
includes2(s, a, b) == \E i \in 1..(Len(s) - 1) : s[i] = a /\ s[i + 1] = b

\* Array.prototype.join(sep) over an array of texts
RECURSIVE join(_, _)
join(parts, sep) ==
  IF parts = <<>> THEN <<>>
  ELSE IF Len(parts) = 1 THEN parts[1]
       ELSE parts[1] \o sep \o join(Tail(parts), sep)

\* ------------------------------------------------------------- data model
Literal(v, n) == [variable |-> v, negated |-> n]

\* ------------------------------------------------------------ parseFormula
parseLiteral(litStr) ==
  LET negated == startsWith(litStr, NOT)
      variable == IF negated THEN substring1(litStr) ELSE litStr
  IN Literal(variable, negated)

RECURSIVE parseLiterals(_)
parseLiterals(literalStrings) ==
  IF literalStrings = <<>> THEN <<>>
  ELSE LET litStr == Head(literalStrings) IN
       (IF trim(litStr) # <<>> THEN <<parseLiteral(litStr)>> ELSE <<>>)
         \o parseLiterals(Tail(literalStrings))

parseClause(clauseStr) ==
  LET cleaned == removeAll(clauseStr, {LPAREN, RPAREN}) IN
  parseLiterals(split(cleaned, OR))

RECURSIVE parseClauses(_)
parseClauses(clauseStrings) ==
  IF clauseStrings = <<>> THEN <<>>
  ELSE LET clause == parseClause(Head(clauseStrings)) IN
       (IF Len(clause) > 0 THEN <<clause>> ELSE <<>>)
         \o parseClauses(Tail(clauseStrings))

parseFormula(text) ==
  LET formula == removeAll(text, Whitespace) IN
  parseClauses(split(formula, AND))

\* --------------------------------------------------------- formulaToString
\* literalToString with the NOT prefix forgotten
literalToStringNoNot(lit) == lit.variable

literalToString(lit) ==
  (IF lit.negated THEN <<NOT>> ELSE <<>>) \o lit.variable

clauseToString(clause) ==
  <<LPAREN>>
    \o join([i \in 1..Len(clause) |-> literalToString(clause[i])], <<SPACE, OR, SPACE>>)
    \o <<RPAREN>>

formulaToString(f) ==
  join([i \in 1..Len(f) |-> clauseToString(f[i])], <<SPACE, AND, SPACE>>)

\* --------------------------------------------------------- validateFormula
ErrEmpty == "Formula cannot be empty"
ErrParens == "Unbalanced parentheses"
ErrChars == "Invalid characters. Use: letters, OR, AND, NOT, parentheses"
ErrOperators == "Consecutive operators not allowed"
Valid == "valid"

\* the loop over the characters: depth after each one, failing as soon as
\* the depth is negative
RECURSIVE parenScanFails(_, _)
parenScanFails(s, depth) ==
  IF s = <<>> THEN depth # 0
  ELSE LET d == IF Head(s) = LPAREN THEN depth + 1
                ELSE IF Head(s) = RPAREN THEN depth - 1
                ELSE depth
       IN IF d < 0 THEN TRUE ELSE parenScanFails(Tail(s), d)

emptyCheckFails(text) == trim(text) = <<>>

\* the parenthesis check without the test of the depth inside the loop
parenCheckFailsAtEndOnly(text) ==
  Len(SelectSeq(text, LAMBDA ch : ch = LPAREN)) # Len(SelectSeq(text, LAMBDA ch : ch = RPAREN))

parenCheckFails(text) == parenScanFails(text, 0)
charCheckFails(text) == text = <<>> \/ \E i \in 1..Len(text) : text[i] \notin validChars
operatorCheckFails(text) == includes2(text, AND, AND) \/ includes2(text, OR, OR)

\* validateFormula with the character check moved before the parenthesis check
validateFormulaCharsFirst(text) ==
  IF emptyCheckFails(text) THEN ErrEmpty
  ELSE IF charCheckFails(text) THEN ErrChars
  ELSE IF parenCheckFails(text) THEN ErrParens
  ELSE IF operatorCheckFails(text) THEN ErrOperators
  ELSE Valid

validateFormula(text) ==
  IF emptyCheckFails(text) THEN ErrEmpty
  ELSE IF parenCheckFails(text) THEN ErrParens
  ELSE IF charCheckFails(text) THEN ErrChars
  ELSE IF operatorCheckFails(text) THEN ErrOperators
  ELSE Valid

\* --------------------------------------------------------- transformTo3CNF
\* A step of the trace is a text: the fixed phrases of the template literals
\* are kept as single tokens, the interpolated parts are spelled out.
Methods == {"tseitin", "padding", "split"}

\* variant of freshName that leaves the counter out of the name
freshNameNoCount(prefix, count) == <<prefix>>

\* `x${helperVarCount++}` and its siblings: the prefix letter and the counter
freshName(prefix, count) == <<prefix>> \o ToDigits(count)

\* the state the function body threads: result, steps, helperVarCount
Acc(result, steps, count) == [result |-> result, steps |-> steps, count |-> count]

\* splitLoop whose continuation clause starts with the helper not negated
RECURSIVE splitLoopPositiveLink(_, _)
splitLoopPositiveLink(remaining, acc) ==
  IF Len(remaining) > 3
  THEN LET helperVar == freshName("x", acc.count)
           newClause == <<remaining[1], remaining[2], Literal(helperVar, FALSE)>>
           step == <<"Created: ">> \o formulaToString(<<newClause>>)
                     \o <<" with helper ">> \o helperVar
       IN splitLoopPositiveLink(<<Literal(helperVar, FALSE)>> \o SubSeq(remaining, 3, Len(remaining)),
                    Acc(Append(acc.result, newClause), Append(acc.steps, step), acc.count + 1))
  ELSE IF Len(remaining) > 0
       THEN Acc(Append(acc.result, remaining),
                Append(acc.steps, <<"Final part: ">> \o formulaToString(<<remaining>>)),
                acc.count)
       ELSE acc

\* while (remaining.length > 3) { ... } followed by the final clause
RECURSIVE splitLoop(_, _)
splitLoop(remaining, acc) ==
  IF Len(remaining) > 3
  THEN LET helperVar == freshName("x", acc.count)
           newClause == <<remaining[1], remaining[2], Literal(helperVar, FALSE)>>
           step == <<"Created: ">> \o formulaToString(<<newClause>>)
                     \o <<" with helper ">> \o helperVar
       IN splitLoop(<<Literal(helperVar, TRUE)>> \o SubSeq(remaining, 3, Len(remaining)),
                    Acc(Append(acc.result, newClause), Append(acc.steps, step), acc.count + 1))
  ELSE IF Len(remaining) > 0
       THEN Acc(Append(acc.result, remaining),
                Append(acc.steps, <<"Final part: ">> \o formulaToString(<<remaining>>)),
                acc.count)
       ELSE acc

\* splitClause with the threshold one too high
splitClauseLongerThanFour(clause, acc) ==
  IF Len(clause) <= 4
  THEN Acc(Append(acc.result, clause),
           IF Len(clause) < 3
           THEN Append(acc.steps, <<"Clause ">> \o formulaToString(<<clause>>) \o <<" has ">>
                                    \o ToDigits(Len(clause)) \o <<" literals - will pad later">>)
           ELSE acc.steps,
           acc.count)
  ELSE splitLoop(clause,
                 Acc(acc.result,
                     Append(acc.steps, <<"Clause ">> \o formulaToString(<<clause>>) \o <<" has ">>
                                         \o ToDigits(Len(clause)) \o <<" literals - splitting...">>),
                     acc.count))

\* body of the first loop of the tseitin/split branch, for one clause
splitClause(clause, acc) ==
  IF Len(clause) <= 3
  THEN Acc(Append(acc.result, clause),
           IF Len(clause) < 3
           THEN Append(acc.steps, <<"Clause ">> \o formulaToString(<<clause>>) \o <<" has ">>
                                    \o ToDigits(Len(clause)) \o <<" literals - will pad later">>)
           ELSE acc.steps,
           acc.count)
  ELSE splitLoop(clause,
                 Acc(acc.result,
                     Append(acc.steps, <<"Clause ">> \o formulaToString(<<clause>>) \o <<" has ">>
                                         \o ToDigits(Len(clause)) \o <<" literals - splitting...">>),
                     acc.count))

RECURSIVE splitAll(_, _)
splitAll(cnf, acc) ==
  IF cnf = <<>> THEN acc ELSE splitAll(Tail(cnf), splitClause(Head(cnf), acc))

\* padClause that appends a z variable to every clause of 2 or more literals
padClauseTwoOrMore(clause, acc) ==
  IF Len(clause) = 1
  THEN LET padVar == freshName("y", acc.count)
           padded == clause \o <<Literal(padVar, FALSE), Literal(padVar, TRUE)>>
       IN Acc(Append(acc.result, padded),
              Append(acc.steps, <<"Padded ">> \o formulaToString(<<clause>>) \o <<" to ">>
                                  \o formulaToString(<<padded>>) \o <<" using ">> \o padVar),
              acc.count + 1)
  ELSE IF Len(clause) >= 2
  THEN LET padVar == freshName("z", acc.count)
           padded == clause \o <<Literal(padVar, FALSE)>>
       IN Acc(Append(acc.result, padded),
              Append(acc.steps, <<"Padded ">> \o formulaToString(<<clause>>) \o <<" to ">>
                                  \o formulaToString(<<padded>>) \o <<" using ">> \o padVar),
              acc.count + 1)
  ELSE Acc(Append(acc.result, clause), acc.steps, acc.count)

\* padClause with the two-literal case forgotten
padClauseOnlyUnit(clause, acc) ==
  IF Len(clause) = 1
  THEN LET padVar == freshName("y", acc.count)
           padded == clause \o <<Literal(padVar, FALSE), Literal(padVar, TRUE)>>
       IN Acc(Append(acc.result, padded),
              Append(acc.steps, <<"Padded ">> \o formulaToString(<<clause>>) \o <<" to ">>
                                  \o formulaToString(<<padded>>) \o <<" using ">> \o padVar),
              acc.count + 1)
  ELSE Acc(Append(acc.result, clause), acc.steps, acc.count)

\* callback of result.map in the tseitin/split branch, for one clause
padClause(clause, acc) ==
  IF Len(clause) = 1
  THEN LET padVar == freshName("y", acc.count)
           padded == clause \o <<Literal(padVar, FALSE), Literal(padVar, TRUE)>>
       IN Acc(Append(acc.result, padded),
              Append(acc.steps, <<"Padded ">> \o formulaToString(<<clause>>) \o <<" to ">>
                                  \o formulaToString(<<padded>>) \o <<" using ">> \o padVar),
              acc.count + 1)
  ELSE IF Len(clause) = 2
  THEN LET padVar == freshName("z", acc.count)
           padded == clause \o <<Literal(padVar, FALSE)>>
       IN Acc(Append(acc.result, padded),
              Append(acc.steps, <<"Padded ">> \o formulaToString(<<clause>>) \o <<" to ">>
                                  \o formulaToString(<<padded>>) \o <<" using ">> \o padVar),
              acc.count + 1)
  ELSE Acc(Append(acc.result, clause), acc.steps, acc.count)

RECURSIVE padAll(_, _)
padAll(clauses, acc) ==
  IF clauses = <<>> THEN acc ELSE padAll(Tail(clauses), padClause(Head(clauses), acc))

\* while (padded.length < 3) { ... } of the padding branch
RECURSIVE paddingLoop(_, _, _)
paddingLoop(padded, steps, count) ==
  IF Len(padded) < 3
  THEN LET padVar == freshName("p", count) IN
       paddingLoop(Append(padded, Literal(padVar, FALSE)),
                   Append(steps, <<"Added padding variable ">> \o padVar),
                   count + 1)
  ELSE [padded |-> padded, steps |-> steps, count |-> count]

\* paddingClause with slice(1, 4) in place of slice(0, 3)
paddingClauseSliceOff(clause, acc) ==
  IF Len(clause) = 3
  THEN Acc(Append(acc.result, clause), acc.steps, acc.count)
  ELSE IF Len(clause) < 3
  THEN LET r == paddingLoop(clause,
                            Append(acc.steps, <<"Padding short clause ">>
                                                \o formulaToString(<<clause>>) \o <<"...">>),
                            acc.count)
       IN Acc(Append(acc.result, r.padded), r.steps, r.count)
  ELSE Acc(Append(acc.result, SubSeq(clause, 2, 4)),
           Append(acc.steps, <<"Clause ">> \o formulaToString(<<clause>>)
                               \o <<" is too long - using first 3 literals (simplified)">>),
           acc.count)

\* body of the loop of the padding branch, for one clause
paddingClause(clause, acc) ==
  IF Len(clause) = 3
  THEN Acc(Append(acc.result, clause), acc.steps, acc.count)
  ELSE IF Len(clause) < 3
  THEN LET r == paddingLoop(clause,
                            Append(acc.steps, <<"Padding short clause ">>
                                                \o formulaToString(<<clause>>) \o <<"...">>),
                            acc.count)
       IN Acc(Append(acc.result, r.padded), r.steps, r.count)
  ELSE Acc(Append(acc.result, SubSeq(clause, 1, 3)),
           Append(acc.steps, <<"Clause ">> \o formulaToString(<<clause>>)
                               \o <<" is too long - using first 3 literals (simplified)">>),
           acc.count)

RECURSIVE paddingAll(_, _)
paddingAll(cnf, acc) ==
  IF cnf = <<>> THEN acc ELSE paddingAll(Tail(cnf), paddingClause(Head(cnf), acc))

\* transformTo3CNF with the first branch taken for 'tseitin' only
transformTo3CNFTseitinOnly(cnf, method) ==
  LET acc == IF method = "tseitin"
             THEN LET first == splitAll(cnf, Acc(<<>>, << <<"Identifying clauses that need splitting...">> >>, 1))
                  IN padAll(first.result,
                            Acc(<<>>,
                                Append(first.steps, <<"Padding short clauses to exactly 3 literals...">>),
                                first.count))
             ELSE paddingAll(cnf, Acc(<<>>, << <<"Using clause padding method...">> >>, 1))
  IN [formula |-> acc.result,
      steps |-> Append(acc.steps, <<"Transformation complete! All clauses now have exactly 3 literals.">>),
      count |-> acc.count]

\* the whole function; count is the value of helperVarCount at the return
transformTo3CNF(cnf, method) ==
  LET acc == IF method \in {"tseitin", "split"}
             THEN LET first == splitAll(cnf, Acc(<<>>, << <<"Identifying clauses that need splitting...">> >>, 1))
                  IN padAll(first.result,
                            Acc(<<>>,
                                Append(first.steps, <<"Padding short clauses to exactly 3 literals...">>),
                                first.count))
             ELSE paddingAll(cnf, Acc(<<>>, << <<"Using clause padding method...">> >>, 1))
  IN [formula |-> acc.result,
      steps |-> Append(acc.steps, <<"Transformation complete! All clauses now have exactly 3 literals.">>),
      count |-> acc.count]

\* ------------------------------------------ transformTo3CNF, arrays as objects
\* The same statements with every array an object of its own: heap[a] is the
\* content of the array at address a, result lists the addresses pushed to
\* the result array, count is helperVarCount.  The clause arrays of the
\* argument are the addresses 1..Len(cnf).  The steps are left out.
Mem(heap, result, count) == [heap |-> heap, result |-> result, count |-> count]

\* a new array: an array literal, [...clause], slice
allocate(mem, content) == [mem EXCEPT !.heap = Append(@, content)]
newest(mem) == Len(mem.heap)

\* result.push(a)
pushResult(mem, a) == [mem EXCEPT !.result = Append(@, a)]

\* while (remaining.length > 3) { ... }, then result.push(remaining)
RECURSIVE heapSplitLoop(_, _)
heapSplitLoop(remaining, mem) ==
  LET content == mem.heap[remaining] IN
  IF Len(content) > 3
  THEN LET helperVar == freshName("x", mem.count)
           withClause == allocate(mem, <<content[1], content[2], Literal(helperVar, FALSE)>>)
           pushed == pushResult(withClause, newest(withClause))
           withRemaining == allocate(pushed, <<Literal(helperVar, TRUE)>>
                                               \o SubSeq(content, 3, Len(content)))
       IN heapSplitLoop(newest(withRemaining), [withRemaining EXCEPT !.count = @ + 1])
  ELSE IF Len(content) > 0 THEN pushResult(mem, remaining) ELSE mem

\* result.push(clause) for a short clause, else let remaining = [...clause]
heapSplitClause(clause, mem) ==
  IF Len(mem.heap[clause]) <= 3
  THEN pushResult(mem, clause)
  ELSE LET copied == allocate(mem, mem.heap[clause])
       IN heapSplitLoop(newest(copied), copied)

RECURSIVE heapSplitAll(_, _)
heapSplitAll(clauses, mem) ==
  IF clauses = <<>> THEN mem
  ELSE heapSplitAll(Tail(clauses), heapSplitClause(Head(clauses), mem))

\* callback of result.map: a new array [...clause, ...] or the clause itself
heapPadClause(clause, mem) ==
  LET content == mem.heap[clause] IN
  IF Len(content) = 1
  THEN LET padVar == freshName("y", mem.count)
           padded == allocate(mem, content \o <<Literal(padVar, FALSE), Literal(padVar, TRUE)>>)
       IN [pushResult(padded, newest(padded)) EXCEPT !.count = @ + 1]
  ELSE IF Len(content) = 2
  THEN LET padVar == freshName("z", mem.count)
           padded == allocate(mem, content \o <<Literal(padVar, FALSE)>>)
       IN [pushResult(padded, newest(padded)) EXCEPT !.count = @ + 1]
  ELSE pushResult(mem, clause)

RECURSIVE heapPadAll(_, _)
heapPadAll(clauses, mem) ==
  IF clauses = <<>> THEN mem
  ELSE heapPadAll(Tail(clauses), heapPadClause(Head(clauses), mem))

\* while (padded.length < 3) { padded.push(...) }: the array at padded grows
\* in place
RECURSIVE heapPaddingLoop(_, _)
heapPaddingLoop(padded, mem) ==
  IF Len(mem.heap[padded]) < 3
  THEN heapPaddingLoop(padded,
                       [mem EXCEPT !.heap[padded] = Append(@, Literal(freshName("p", mem.count), FALSE)),
                                   !.count = @ + 1])
  ELSE mem

\* heapPaddingClause with let padded = clause in place of [...clause]
heapPaddingClauseNoCopy(clause, mem) ==
  LET content == mem.heap[clause] IN
  IF Len(content) = 3
  THEN pushResult(mem, clause)
  ELSE IF Len(content) < 3
  THEN pushResult(heapPaddingLoop(clause, mem), clause)
  ELSE LET sliced == allocate(mem, SubSeq(content, 1, 3))
       IN pushResult(sliced, newest(sliced))

\* body of the loop of the padding branch
heapPaddingClause(clause, mem) ==
  LET content == mem.heap[clause] IN
  IF Len(content) = 3
  THEN pushResult(mem, clause)
  ELSE IF Len(content) < 3
  THEN LET copied == allocate(mem, content)
           padded == newest(copied)
       IN pushResult(heapPaddingLoop(padded, copied), padded)
  ELSE LET sliced == allocate(mem, SubSeq(content, 1, 3))
       IN pushResult(sliced, newest(sliced))

RECURSIVE heapPaddingAll(_, _)
heapPaddingAll(clauses, mem) ==
  IF clauses = <<>> THEN mem
  ELSE heapPaddingAll(Tail(clauses), heapPaddingClause(Head(clauses), mem))

\* the whole function: the clause arrays of the argument as they are at the
\* return, and the content of the returned formula
heapTransformTo3CNF(cnf, method) ==
  LET addresses == [i \in 1..Len(cnf) |-> i]
      start == Mem(cnf, <<>>, 1)
      mem == IF method \in {"tseitin", "split"}
             THEN LET first == heapSplitAll(addresses, start)
                  IN heapPadAll(first.result, [first EXCEPT !.result = <<>>])
             ELSE heapPaddingAll(addresses, start)
  IN [argument |-> SubSeq(mem.heap, 1, Len(cnf)),
      formula |-> [i \in 1..Len(mem.result) |-> mem.heap[mem.result[i]]]]

\* ----------------------------------------------------- parseFormulaToGraph
\* `c${clauseIdx}-l${litIdx}`
vertexId(clauseIdx, litIdx) ==
  <<"c">> \o ToDigits(clauseIdx) \o <<"-", "l">> \o ToDigits(litIdx)

\* callback of lits.forEach; the screen position of the vertex is layout
\* and is left out
graphLiteral(lit, clauseIdx, litIdx) ==
  LET negated == startsWith(lit, NOT)
      variable == IF negated THEN substring1(lit) ELSE lit
  IN [id |-> vertexId(clauseIdx, litIdx), variable |-> variable,
      negated |-> negated, clauseIndex |-> clauseIdx]

\* callback of clauses.forEach: the vertices of clause number clauseIdx
graphClause(clause, clauseIdx) ==
  LET parts == split(clause, OR)
      lits == [k \in 1..Len(parts) |-> trim(parts[k])]
  IN [k \in 1..Len(lits) |-> graphLiteral(lits[k], clauseIdx, k - 1)]

RECURSIVE graphLiterals(_, _)
graphLiterals(clauses, clauseIdx) ==
  IF clauses = <<>> THEN <<>>
  ELSE graphClause(Head(clauses), clauseIdx) \o graphLiterals(Tail(clauses), clauseIdx + 1)

isContradictory(lit1, lit2) ==
  lit1.variable = lit2.variable /\ lit1.negated # lit2.negated

\* variant of connects that leaves out the contradiction test
connectsCrossClause(literals, i, j) ==
  literals[i].clauseIndex # literals[j].clauseIndex

\* the condition under which the inner loop pushes the edge of literals i, j
connects(literals, i, j) ==
  /\ literals[i].clauseIndex # literals[j].clauseIndex
  /\ ~isContradictory(literals[i], literals[j])

\* the inner loop for one i: the edges pushed for j = i + 1 .. length - 1
edgesFrom(literals, i) ==
  LET js == SelectSeq([k \in 1..(Len(literals) - i) |-> i + k],
                      LAMBDA j : connects(literals, i, j))
  IN [k \in 1..Len(js) |-> [from |-> literals[i].id, to |-> literals[js[k]].id]]

\* the outer loop, from index i on, in the order the edges are pushed
RECURSIVE graphEdges(_, _)
graphEdges(literals, i) ==
  IF i > Len(literals) THEN <<>>
  ELSE edgesFrom(literals, i) \o graphEdges(literals, i + 1)

parseFormulaToGraph(formula) ==
  LET parts == split(formula, AND)
      clauses == [k \in 1..Len(parts) |-> removeAll(trim(parts[k]), {LPAREN, RPAREN})]
      literals == graphLiterals(clauses, 0)
  IN [literals |-> literals, edges |-> graphEdges(literals, 1)]

\* -------------------------------------------------------------- findClique
\* edges.some(e => (e.from === a.id && e.to === b.id) ||
\*                 (e.from === b.id && e.to === a.id))
hasEdge(edges, a, b) ==
  \E k \in 1..Len(edges) :
    \/ (edges[k].from = a.id /\ edges[k].to = b.id)
    \/ (edges[k].from = b.id /\ edges[k].to = a.id)

\* literals.filter(l => l.clauseIndex === c)
clauseGroup(literals, c) == SelectSeq(literals, LAMBDA l : l.clauseIndex = c)

\* for (const l3 of clauseGroups[2]), from position k on: the identifiers of
\* the first triple with all three edges, or the empty list
RECURSIVE loopL3(_, _, _, _, _)
loopL3(clauseGroups, edges, l1, l2, k) ==
  IF k > Len(clauseGroups[3]) THEN <<>>
  ELSE LET l3 == clauseGroups[3][k]
           hasEdge12 == hasEdge(edges, l1, l2)
           hasEdge13 == hasEdge(edges, l1, l3)
           hasEdge23 == hasEdge(edges, l2, l3)
       IN IF hasEdge12 /\ hasEdge13 /\ hasEdge23
          THEN <<l1.id, l2.id, l3.id>>
          ELSE loopL3(clauseGroups, edges, l1, l2, k + 1)

\* for (const l2 of clauseGroups[1]), from position j on
RECURSIVE loopL2(_, _, _, _)
loopL2(clauseGroups, edges, l1, j) ==
  IF j > Len(clauseGroups[2]) THEN <<>>
  ELSE LET found == loopL3(clauseGroups, edges, l1, clauseGroups[2][j], 1)
       IN IF found # <<>> THEN found ELSE loopL2(clauseGroups, edges, l1, j + 1)

\* for (const l1 of clauseGroups[0]), from position i on
RECURSIVE loopL1(_, _, _)
loopL1(clauseGroups, edges, i) ==
  IF i > Len(clauseGroups[1]) THEN <<>>
  ELSE LET found == loopL2(clauseGroups, edges, clauseGroups[1][i], 1)
       IN IF found # <<>> THEN found ELSE loopL1(clauseGroups, edges, i + 1)

\* variant of findClique whose third group filters on clause 1 again
findCliqueGroupTypo(literals, edges) ==
  LET clauseGroups == <<clauseGroup(literals, 0),
                        clauseGroup(literals, 1),
                        clauseGroup(literals, 1)>>
  IN loopL1(clauseGroups, edges, 1)

\* the three groups are those of clauses 0, 1 and 2, whatever the number of
\* clauses of the graph
findClique(literals, edges) ==
  LET clauseGroups == <<clauseGroup(literals, 0),
                        clauseGroup(literals, 1),
                        clauseGroup(literals, 2)>>
  IN loopL1(clauseGroups, edges, 1)

\* ------------------------------------------------------------------ inputs
\* The texts a user can type: every text of at most MaxLen characters over
\* TypedChars, every formula of at most MaxLits literal occurrences over
\* FormulaLiterals written clause by clause in the surface syntax, the two
\* formulas the application itself displays, and the formulas of the two
\* worked scenarios.
TypedChars == {"A", "p", "1", AND, OR, NOT, LPAREN, RPAREN, SPACE, BadChar}

RECURSIVE TextsUpTo(_)
TextsUpTo(n) ==
  IF n = 0 THEN {<<>>}
  ELSE LET shorter == TextsUpTo(n - 1) IN
       shorter \cup {Append(t, ch) : t \in {u \in shorter : Len(u) = n - 1}, ch \in TypedChars}

FormulaLiterals == {<<"A">>, <<NOT, "A">>, <<"x", "1">>}

\* the clauses of a written formula: literal texts joined by OR, in parentheses
RECURSIVE ClauseBodies(_)
ClauseBodies(n) ==
  IF n = 1 THEN FormulaLiterals
  ELSE {b \o <<OR>> \o l : b \in ClauseBodies(n - 1), l \in FormulaLiterals}

\* written formulas with exactly n literal occurrences
RECURSIVE WrittenFormulas(_)
WrittenFormulas(n) ==
  {<<LPAREN>> \o b \o <<RPAREN>> : b \in ClauseBodies(n)}
    \cup UNION {{<<LPAREN>> \o b \o <<RPAREN, AND>> \o f :
                   b \in ClauseBodies(k), f \in WrittenFormulas(n - k)} : k \in 1..(n - 1)}

\* the formula the custom-input box starts with, and the example formula of
\* the "What Structure Changes" panel
DefaultCustomFormula ==
  <<"(", "A", " ", OR, " ", "B", ")", " ", AND, " ",
    "(", NOT, "C", " ", OR, " ", "D", " ", OR, " ", "E", " ", OR, " ", "F", ")">>
ExampleFormula ==
  <<"(", "A", " ", OR, " ", "B", ")", " ", AND, " ",
    "(", NOT, "C", " ", OR, " ", "D", " ", OR, " ", "E", " ", OR, " ", "F", " ", OR, " ", "G", ")">>

\* the formula of the custom-input box written without spaces
ScenarioAText == removeAll(DefaultCustomFormula, Whitespace)

\* the formula the graph panel starts with, its constant and its subscripted
\* helper written as the plain names X and Y
ScenarioCText ==
  <<"(", "A", OR, "B", OR, "X", ")", AND,
    "(", NOT, "C", OR, "D", OR, "Y", ")", AND,
    "(", NOT, "Y", OR, "E", OR, "F", ")">>

\* a typed formula whose only variable is named like a padding variable
PadNameText == <<"y", "1">>

Inputs ==
  TextsUpTo(MaxLen) \cup UNION {WrittenFormulas(n) : n \in 1..MaxLits}
    \cup {DefaultCustomFormula, ExampleFormula, ScenarioAText, ScenarioCText, PadNameText}

\* ------------------------------------------------------------------- state
VARIABLES
  input,           \* the text under work (customFormula)
  pc,              \* which function is applied next
  validation,      \* result of validateFormula(input)
  cnf,             \* parseFormula(input)
  argument,        \* the clause arrays passed to transformTo3CNF, as they are now
  method,          \* method passed to transformTo3CNF
  transformed,     \* transformTo3CNF(cnf, method).formula
  steps,           \* transformTo3CNF(cnf, method).steps
  helperVarCount,  \* helperVarCount at the return of transformTo3CNF
  rendered,        \* formulaToString(transformed)
  reparsed,        \* parseFormula(rendered)
  literals,        \* parseFormulaToGraph(rendered).literals
  edges,           \* parseFormulaToGraph(rendered).edges
  cliqueNodes,     \* findClique() on that graph
  \* FormulaAnimation (custom formula box)
  currentStep,     \* index of the transformation step shown
  selectedPath,    \* the reduction path selected
  showCustomInput, \* whether the custom-input panel is open
  customFormula,   \* the text of the custom-input box
  pendingSubmit,   \* what a submit waiting for the parser module has captured
  alertText,       \* the last alert shown
  calls,           \* the parser functions the last submit invoked, in order
  \* CliqueGraphAnimation (graph construction)
  showVertices,    \* number of vertices shown
  showEdges,       \* number of edges shown
  highlightClique, \* whether the clique is highlighted
  isGraphAnimating,
  graphSpeed,
  timers,          \* the timeouts and intervals scheduled and not cleared
  effectRuns,      \* how often the animation effect has started
  lastControl,     \* the control button pressed last
  \* FlowCanvas (walkthrough)
  isAnimating,
  currentAnimationStep,
  showExamplePanel,
  userActions      \* how many walkthrough buttons the user has pressed

submitVars == <<currentStep, selectedPath, showCustomInput, customFormula,
                pendingSubmit, alertText, calls>>
graphVars == <<showVertices, showEdges, highlightClique, isGraphAnimating, graphSpeed,
               timers, effectRuns, lastControl>>
walkVars == <<isAnimating, currentAnimationStep, showExamplePanel, userActions>>
parserVars == <<input, pc, validation, cnf, argument, method, transformed, steps,
                helperVarCount, rendered, reparsed, literals, edges, cliqueNodes>>

vars == <<parserVars, submitVars, graphVars, walkVars>>

None == "none"

\* the three components as they are constructed (useState initial values)
SubmitInit ==
  /\ currentStep = 0
  /\ selectedPath = "tseitin"
  /\ showCustomInput = FALSE
  /\ customFormula = DefaultCustomFormula
  /\ pendingSubmit = [waiting |-> FALSE]
  /\ alertText = [kind |-> "none"]
  /\ calls = <<>>

GraphInit ==
  /\ showVertices = 0
  /\ showEdges = 0
  /\ highlightClique = FALSE
  /\ isGraphAnimating = FALSE
  /\ graphSpeed = 1
  /\ timers = {}
  /\ effectRuns = 0
  /\ lastControl = None

WalkInit ==
  /\ isAnimating = FALSE
  /\ currentAnimationStep = 0
  /\ showExamplePanel = FALSE
  /\ userActions = 0

Init ==
  /\ input \in Inputs
  /\ pc = "validate"
  /\ validation = None
  /\ cnf = <<>>
  /\ argument = <<>>
  /\ method = None
  /\ transformed = <<>>
  /\ steps = <<>>
  /\ helperVarCount = 1
  /\ rendered = <<>>
  /\ reparsed = <<>>
  /\ literals = <<>>
  /\ edges = <<>>
  /\ cliqueNodes = <<>>
  /\ SubmitInit /\ GraphInit /\ WalkInit

\* validateFormula(customFormula); a rejected text goes no further
ValidateFormula ==
  /\ pc = "validate"
  /\ validation' = validateFormula(input)
  /\ pc' = IF validation' = Valid THEN "parse" ELSE "rejected"
  /\ UNCHANGED <<input, cnf, argument, method, transformed, steps, helperVarCount,
                 rendered, reparsed, literals, edges, cliqueNodes>>
  /\ UNCHANGED <<submitVars, graphVars, walkVars>>

ParseFormula ==
  /\ pc = "parse"
  /\ cnf' = parseFormula(input)
  /\ argument' = cnf'
  /\ pc' = "transform"
  /\ UNCHANGED <<input, validation, method, transformed, steps, helperVarCount,
                 rendered, reparsed, literals, edges, cliqueNodes>>
  /\ UNCHANGED <<submitVars, graphVars, walkVars>>

TransformTo3CNF ==
  /\ pc = "transform"
  /\ \E m \in Methods :
       LET r == transformTo3CNF(cnf, m) IN
       /\ method' = m
       /\ transformed' = r.formula
       /\ steps' = r.steps
       /\ helperVarCount' = r.count
       /\ argument' = heapTransformTo3CNF(cnf, m).argument
  /\ pc' = "render"
  /\ UNCHANGED <<input, validation, cnf, rendered, reparsed, literals, edges, cliqueNodes>>
  /\ UNCHANGED <<submitVars, graphVars, walkVars>>

FormulaToString ==
  /\ pc = "render"
  /\ rendered' = formulaToString(transformed)
  /\ pc' = "reparse"
  /\ UNCHANGED <<input, validation, cnf, argument, method, transformed, steps, helperVarCount,
                 reparsed, literals, edges, cliqueNodes>>
  /\ UNCHANGED <<submitVars, graphVars, walkVars>>

Reparse ==
  /\ pc = "reparse"
  /\ reparsed' = parseFormula(rendered)
  /\ pc' = "lower"
  /\ UNCHANGED <<input, validation, cnf, argument, method, transformed, steps, helperVarCount,
                 rendered, literals, edges, cliqueNodes>>
  /\ UNCHANGED <<submitVars, graphVars, walkVars>>

ParseFormulaToGraph ==
  /\ pc = "lower"
  /\ LET g == parseFormulaToGraph(rendered) IN
       /\ literals' = g.literals
       /\ edges' = g.edges
  /\ pc' = "done"
  /\ UNCHANGED <<input, validation, cnf, argument, method, transformed, steps, helperVarCount,
                 rendered, reparsed, cliqueNodes>>
  /\ UNCHANGED <<submitVars, graphVars, walkVars>>

\* const cliqueNodes = findClique(), on the graph just built
FindClique ==
  /\ pc = "done"
  /\ cliqueNodes' = findClique(literals, edges)
  /\ pc' = "searched"
  /\ UNCHANGED <<input, validation, cnf, argument, method, transformed, steps, helperVarCount,
                 rendered, reparsed, literals, edges>>
  /\ UNCHANGED <<submitVars, graphVars, walkVars>>

Next ==
  \/ ValidateFormula
  \/ ParseFormula
  \/ TransformTo3CNF
  \/ FormulaToString
  \/ Reparse
  \/ ParseFormulaToGraph
  \/ FindClique

Spec == Init /\ [][Next]_vars

\* ============================================ FormulaAnimation: custom formula
\* The parser variables at rest, for the specifications of the components
\* that do not use them.
ParserIdle ==
  /\ input = <<>>
  /\ pc = "idle"
  /\ validation = None
  /\ cnf = <<>>
  /\ argument = <<>>
  /\ method = None
  /\ transformed = <<>>
  /\ steps = <<>>
  /\ helperVarCount = 1
  /\ rendered = <<>>
  /\ reparsed = <<>>
  /\ cliqueNodes = <<>>

Paths == {"tseitin", "clause-padding", "gadget-construction"}

methodMap(path) ==
  IF path = "tseitin" THEN "tseitin"
  ELSE IF path = "clause-padding" THEN "padding"
  ELSE "split"

\* transformationStepsMap[path].length
transformationStepsLength(path) == IF path = "gadget-construction" THEN 5 ELSE 4

\* the second example button of the panel
ExampleButtonFormula ==
  <<"(", "A", ")", " ", AND, " ", "(", "B", " ", OR, " ", "C", ")">>

\* the texts set into the box: the initial one, an example button, the empty
\* text and one typed text for each of the other three reasons of rejection
SubmitTexts ==
  {DefaultCustomFormula, ExampleButtonFormula, <<>>,
   <<RPAREN, LPAREN>>, <<BadChar>>, <<"A", AND, AND, "B">>}

NoSubmit == [waiting |-> FALSE]
NoAlert == [kind |-> "none"]

\* alert(`Error: ${validation.error}\n\nPlease check your formula and try again.`)
ErrorAlert(error) == [kind |-> "error", reason |-> error]

\* alert(resultMessage)
ResultAlert(original, shown, transformSteps, path) ==
  [kind |-> "result", original |-> original, transformed |-> shown,
   steps |-> transformSteps, path |-> path]

SubmitSpecInit ==
  /\ ParserIdle
  /\ literals = <<>> /\ edges = <<>>
  /\ currentStep = 0
  /\ selectedPath = "tseitin"
  /\ showCustomInput = FALSE
  /\ customFormula = DefaultCustomFormula
  /\ pendingSubmit = NoSubmit
  /\ alertText = NoAlert
  /\ calls = <<>>
  /\ GraphInit /\ WalkInit

HandleNext ==
  /\ currentStep < transformationStepsLength(selectedPath) - 1
  /\ currentStep' = currentStep + 1
  /\ UNCHANGED <<selectedPath, showCustomInput, customFormula, pendingSubmit, alertText, calls>>
  /\ UNCHANGED <<parserVars, graphVars, walkVars>>

HandlePrev ==
  /\ currentStep > 0
  /\ currentStep' = currentStep - 1
  /\ UNCHANGED <<selectedPath, showCustomInput, customFormula, pendingSubmit, alertText, calls>>
  /\ UNCHANGED <<parserVars, graphVars, walkVars>>

\* onChange of the path selector
SelectPath ==
  /\ \E path \in Paths : selectedPath' = path
  /\ currentStep' = 0
  /\ UNCHANGED <<showCustomInput, customFormula, pendingSubmit, alertText, calls>>
  /\ UNCHANGED <<parserVars, graphVars, walkVars>>

ToggleCustomInput ==
  /\ showCustomInput' = ~showCustomInput
  /\ UNCHANGED <<currentStep, selectedPath, customFormula, pendingSubmit, alertText, calls>>
  /\ UNCHANGED <<parserVars, graphVars, walkVars>>

\* an example button or typing, both inside the open panel
SetCustomFormula ==
  /\ showCustomInput
  /\ \E text \in SubmitTexts : customFormula' = text
  /\ UNCHANGED <<currentStep, selectedPath, showCustomInput, pendingSubmit, alertText, calls>>
  /\ UNCHANGED <<parserVars, graphVars, walkVars>>

\* handleCustomFormulaSubmit up to .then: the callback keeps the text and the
\* path of this render; one submit waits at a time
ClickSubmit ==
  /\ showCustomInput
  /\ trim(customFormula) # <<>>
  /\ ~pendingSubmit.waiting
  /\ pendingSubmit' = [waiting |-> TRUE, text |-> customFormula, path |-> selectedPath]
  /\ UNCHANGED <<currentStep, selectedPath, showCustomInput, customFormula, alertText, calls>>
  /\ UNCHANGED <<parserVars, graphVars, walkVars>>

\* the callback with the return after the error alert left out
SubmitCallbackNoReturn ==
  /\ pendingSubmit.waiting
  /\ LET parsed == parseFormula(pendingSubmit.text)
         r == transformTo3CNF(parsed, methodMap(pendingSubmit.path))
     IN /\ alertText' = ResultAlert(pendingSubmit.text, formulaToString(r.formula),
                                    r.steps, pendingSubmit.path)
        /\ calls' = <<"validateFormula", "parseFormula", "transformTo3CNF", "formulaToString">>
        /\ showCustomInput' = FALSE
        /\ currentStep' = 0
  /\ pendingSubmit' = NoSubmit
  /\ UNCHANGED <<selectedPath, customFormula>>
  /\ UNCHANGED <<parserVars, graphVars, walkVars>>

\* the callback passed to .then
SubmitCallback ==
  /\ pendingSubmit.waiting
  /\ LET validation1 == validateFormula(pendingSubmit.text) IN
     IF validation1 # Valid
     THEN /\ alertText' = ErrorAlert(validation1)
          /\ calls' = <<"validateFormula">>
          /\ UNCHANGED <<showCustomInput, currentStep>>
     ELSE LET parsed == parseFormula(pendingSubmit.text)
              r == transformTo3CNF(parsed, methodMap(pendingSubmit.path))
          IN /\ alertText' = ResultAlert(pendingSubmit.text, formulaToString(r.formula),
                                         r.steps, pendingSubmit.path)
             /\ calls' = <<"validateFormula", "parseFormula", "transformTo3CNF", "formulaToString">>
             /\ showCustomInput' = FALSE
             /\ currentStep' = 0
  /\ pendingSubmit' = NoSubmit
  /\ UNCHANGED <<selectedPath, customFormula>>
  /\ UNCHANGED <<parserVars, graphVars, walkVars>>

SubmitNext ==
  \/ HandleNext
  \/ HandlePrev
  \/ SelectPath
  \/ ToggleCustomInput
  \/ SetCustomFormula
  \/ ClickSubmit
  \/ SubmitCallback

SpecSubmit == SubmitSpecInit /\ [][SubmitNext]_vars

\* ================================================ CliqueGraphAnimation: timers
\* most runs of the animation effect in one behaviour
MaxRuns == 3

\* positions of the speed slider
Speeds == {1, 2}

\* the formula drawn: the default of the formula prop
GraphFormula == ScenarioCText

min(a, b) == IF a < b THEN a ELSE b

\* a pending setInterval or setTimeout of effect run `run`; count is the
\* callback's local counter (count, edgeCount)
Timer(kind, run, count) == [kind |-> kind, run |-> run, count |-> count]

\* the effect's cleanup: clearInterval(vertexInterval) and nothing else
cleanup(pending) == {t \in pending : t.kind # "vertexInterval"}

GraphSpecInit ==
  /\ input = GraphFormula
  /\ pc = "idle"
  /\ validation = None
  /\ cnf = <<>>
  /\ argument = <<>>
  /\ method = None
  /\ transformed = <<>>
  /\ steps = <<>>
  /\ helperVarCount = 1
  /\ rendered = <<>>
  /\ reparsed = <<>>
  /\ cliqueNodes = <<>>
  /\ literals = parseFormulaToGraph(GraphFormula).literals
  /\ edges = parseFormulaToGraph(GraphFormula).edges
  /\ SubmitInit /\ GraphInit /\ WalkInit

\* the body of the effect when isGraphAnimating is true
effectBody(pending, run) ==
  /\ showVertices' = 0
  /\ showEdges' = 0
  /\ highlightClique' = FALSE
  /\ timers' = pending \cup {Timer("vertexInterval", run, 0)}
  /\ effectRuns' = run

StartGraphAnimation ==
  /\ ~isGraphAnimating
  /\ effectRuns < MaxRuns
  /\ isGraphAnimating' = TRUE
  /\ effectBody(timers, effectRuns + 1)
  /\ lastControl' = "animate"
  /\ UNCHANGED graphSpeed
  /\ UNCHANGED <<parserVars, submitVars, walkVars>>

ResetGraph ==
  /\ showVertices' = 0
  /\ showEdges' = 0
  /\ highlightClique' = FALSE
  /\ isGraphAnimating' = FALSE
  /\ timers' = IF isGraphAnimating THEN cleanup(timers) ELSE timers
  /\ lastControl' = "reset"
  /\ UNCHANGED <<graphSpeed, effectRuns>>
  /\ UNCHANGED <<parserVars, submitVars, walkVars>>

ShowFullGraph ==
  /\ showVertices' = Len(literals)
  /\ showEdges' = Len(edges)
  /\ highlightClique' = TRUE
  /\ isGraphAnimating' = FALSE
  /\ timers' = IF isGraphAnimating THEN cleanup(timers) ELSE timers
  /\ lastControl' = "showAll"
  /\ UNCHANGED <<graphSpeed, effectRuns>>
  /\ UNCHANGED <<parserVars, submitVars, walkVars>>

\* the slider: graphSpeed is a dependency of the effect, so a change while
\* animating cleans up and runs the effect again
SetGraphSpeed ==
  /\ \E speed \in Speeds \ {graphSpeed} : graphSpeed' = speed
  /\ IF isGraphAnimating
     THEN /\ effectRuns < MaxRuns
          /\ effectBody(cleanup(timers), effectRuns + 1)
     ELSE UNCHANGED <<showVertices, showEdges, highlightClique, timers, effectRuns>>
  /\ UNCHANGED <<isGraphAnimating, lastControl>>
  /\ UNCHANGED <<parserVars, submitVars, walkVars>>

\* callback of vertexInterval
VertexTick ==
  /\ \E t \in timers :
       /\ t.kind = "vertexInterval"
       /\ showVertices' = t.count + 1
       /\ timers' = (timers \ {t}) \cup
            {IF t.count + 1 >= Len(literals)
             THEN Timer("edgeDelay", t.run, 0)
             ELSE Timer("vertexInterval", t.run, t.count + 1)}
  /\ UNCHANGED <<showEdges, highlightClique, isGraphAnimating, graphSpeed, effectRuns, lastControl>>
  /\ UNCHANGED <<parserVars, submitVars, walkVars>>

\* callback of the setTimeout that starts edgeInterval
EdgeDelayFire ==
  /\ \E t \in timers :
       /\ t.kind = "edgeDelay"
       /\ timers' = (timers \ {t}) \cup {Timer("edgeInterval", t.run, 0)}
  /\ UNCHANGED <<showVertices, showEdges, highlightClique, isGraphAnimating, graphSpeed,
                 effectRuns, lastControl>>
  /\ UNCHANGED <<parserVars, submitVars, walkVars>>

\* callback of edgeInterval
EdgeTick ==
  /\ \E t \in timers :
       /\ t.kind = "edgeInterval"
       /\ showEdges' = min(t.count + 3, Len(edges))
       /\ timers' = (timers \ {t}) \cup
            {IF t.count + 3 >= Len(edges)
             THEN Timer("cliqueDelay", t.run, 0)
             ELSE Timer("edgeInterval", t.run, t.count + 3)}
  /\ UNCHANGED <<showVertices, highlightClique, isGraphAnimating, graphSpeed, effectRuns,
                 lastControl>>
  /\ UNCHANGED <<parserVars, submitVars, walkVars>>

\* callback of the last setTimeout; setIsGraphAnimating(false) runs the
\* cleanup of the effect if an animation was on
CliqueDelayFire ==
  /\ \E t \in timers :
       /\ t.kind = "cliqueDelay"
       /\ timers' = IF isGraphAnimating THEN cleanup(timers \ {t}) ELSE timers \ {t}
  /\ highlightClique' = TRUE
  /\ isGraphAnimating' = FALSE
  /\ UNCHANGED <<showVertices, showEdges, graphSpeed, effectRuns, lastControl>>
  /\ UNCHANGED <<parserVars, submitVars, walkVars>>

GraphNext ==
  \/ StartGraphAnimation
  \/ ResetGraph
  \/ ShowFullGraph
  \/ SetGraphSpeed
  \/ VertexTick
  \/ EdgeDelayFire
  \/ EdgeTick
  \/ CliqueDelayFire

SpecGraph == GraphSpecInit /\ [][GraphNext]_vars

\* ==================================================== FlowCanvas: walkthrough
\* most button presses in one behaviour; after them the user does nothing
MaxUserActions == 10

\* animationSteps.length
animationStepsLength == 5

WalkSpecInit ==
  /\ ParserIdle
  /\ literals = <<>> /\ edges = <<>>
  /\ SubmitInit /\ GraphInit /\ WalkInit

\* Start is disabled while animating
StartAnimation ==
  /\ ~isAnimating
  /\ userActions < MaxUserActions
  /\ currentAnimationStep' = 0
  /\ isAnimating' = TRUE
  /\ showExamplePanel' = TRUE
  /\ userActions' = userActions + 1
  /\ UNCHANGED <<parserVars, submitVars, graphVars>>

\* Pause is disabled unless animating
StopAnimation ==
  /\ isAnimating
  /\ userActions < MaxUserActions
  /\ isAnimating' = FALSE
  /\ userActions' = userActions + 1
  /\ UNCHANGED <<currentAnimationStep, showExamplePanel>>
  /\ UNCHANGED <<parserVars, submitVars, graphVars>>

\* Next is disabled at the last step and while animating
NextStep ==
  /\ ~isAnimating
  /\ currentAnimationStep # animationStepsLength - 1
  /\ userActions < MaxUserActions
  /\ IF currentAnimationStep < animationStepsLength - 1
     THEN /\ currentAnimationStep' = currentAnimationStep + 1
          /\ showExamplePanel' = TRUE
     ELSE UNCHANGED <<currentAnimationStep, showExamplePanel>>
  /\ userActions' = userActions + 1
  /\ UNCHANGED isAnimating
  /\ UNCHANGED <<parserVars, submitVars, graphVars>>

\* Prev is disabled at step 0 and while animating
PrevStep ==
  /\ ~isAnimating
  /\ currentAnimationStep # 0
  /\ userActions < MaxUserActions
  /\ IF currentAnimationStep > 0
     THEN /\ currentAnimationStep' = currentAnimationStep - 1
          /\ showExamplePanel' = TRUE
     ELSE UNCHANGED <<currentAnimationStep, showExamplePanel>>
  /\ userActions' = userActions + 1
  /\ UNCHANGED isAnimating
  /\ UNCHANGED <<parserVars, submitVars, graphVars>>

ResetAnimation ==
  /\ userActions < MaxUserActions
  /\ currentAnimationStep' = 0
  /\ isAnimating' = FALSE
  /\ showExamplePanel' = FALSE
  /\ userActions' = userActions + 1
  /\ UNCHANGED <<parserVars, submitVars, graphVars>>

\* an interval callback that advances without looking at the last step
AnimationTickNoStop ==
  /\ isAnimating
  /\ currentAnimationStep' = currentAnimationStep + 1
  /\ UNCHANGED <<isAnimating, showExamplePanel, userActions>>
  /\ UNCHANGED <<parserVars, submitVars, graphVars>>

\* the interval callback; the interval exists exactly while isAnimating
AnimationTick ==
  /\ isAnimating
  /\ IF currentAnimationStep < animationStepsLength - 1
     THEN /\ currentAnimationStep' = currentAnimationStep + 1
          /\ UNCHANGED isAnimating
     ELSE /\ isAnimating' = FALSE
          /\ UNCHANGED currentAnimationStep
  /\ UNCHANGED <<showExamplePanel, userActions>>
  /\ UNCHANGED <<parserVars, submitVars, graphVars>>

WalkNext ==
  \/ StartAnimation
  \/ StopAnimation
  \/ NextStep
  \/ PrevStep
  \/ ResetAnimation
  \/ AnimationTick

\* setInterval calls the callback again and again while the interval exists
SpecWalk == WalkSpecInit /\ [][WalkNext]_vars /\ WF_vars(AnimationTick)

\* ============================================================== properties
AfterParse == {"transform", "render", "reparse", "lower", "done", "searched"}
AfterTransform == {"render", "reparse", "lower", "done", "searched"}

\* the variable names that occur in a formula
VarsOf(f) == UNION {{f[i][j].variable : j \in 1..Len(f[i])} : i \in 1..Len(f)}

\* the literal lit is true under the assignment that makes exactly the
\* variables of trueVars true
Holds(lit, trueVars) == (lit.variable \in trueVars) # lit.negated

\* the conjunction of the clauses of f, each a disjunction, has a model
Satisfiable(f) ==
  \E trueVars \in SUBSET VarsOf(f) :
    \A i \in 1..Len(f) : \E j \in 1..Len(f[i]) : Holds(f[i][j], trueVars)

\* the names the trace reports as introduced: the text after the phrase
\* that announces a helper or padding variable
Announcements == {" with helper ", " using ", "Added padding variable "}
Announces(step) == \E i \in 1..Len(step) : step[i] \in Announcements
AnnouncedName(step) ==
  LET i == CHOOSE k \in 1..Len(step) : step[k] \in Announcements
  IN SubSeq(step, i + 1, Len(step))
IntroducedNames == {AnnouncedName(steps[k]) : k \in {n \in 1..Len(steps) : Announces(steps[n])}}

\* how many literals the clauses shorter than 3 lack in total
RECURSIVE MissingLiterals(_)
MissingLiterals(f) ==
  IF f = <<>> THEN 0
  ELSE (IF Len(Head(f)) < 3 THEN 3 - Len(Head(f)) ELSE 0) + MissingLiterals(Tail(f))

\* C1: under the split method every clause of the returned formula has
\* exactly 3 literals, whatever the arities of the (non-empty) input clauses.
C1_SplitAritiesAreThree ==
  (pc \in AfterTransform /\ method = "split")
    => \A i \in 1..Len(transformed) : Len(transformed[i]) = 3

\* C1 witness: the split method has run on a formula holding both a clause
\* longer than 3 and a clause shorter than 3.
C1_Witness ==
  /\ pc = "render" /\ method = "split"
  /\ \E i \in 1..Len(cnf) : Len(cnf[i]) > 3
  /\ \E i \in 1..Len(cnf) : Len(cnf[i]) < 3
  /\ Len(transformed) >= 3

\* C2: the formula returned by the tseitin method is satisfiable if and only
\* if the input formula is.
C2_TseitinPreservesSatisfiability ==
  (pc \in AfterTransform /\ method = "tseitin")
    => (Satisfiable(transformed) <=> Satisfiable(cnf))

\* C3: no variable name introduced by transformTo3CNF, under any method,
\* already occurs in the input formula.
C3_FreshNamesAreNew ==
  pc \in AfterTransform => IntroducedNames \cap VarsOf(cnf) = {}

\* C4: the padding method on clauses of 1, 2 or 3 literals keeps each clause
\* as a prefix and appends positive fresh variables up to exactly 3 literals.
C4_PaddingShortClauses ==
  (pc \in AfterTransform /\ method = "padding" /\ \A i \in 1..Len(cnf) : Len(cnf[i]) <= 3)
    => /\ Len(transformed) = Len(cnf)
       /\ \A i \in 1..Len(cnf) :
            /\ Len(transformed[i]) = 3
            /\ SubSeq(transformed[i], 1, Len(cnf[i])) = cnf[i]
            /\ \A j \in (Len(cnf[i]) + 1)..3 :
                 /\ ~transformed[i][j].negated
                 /\ transformed[i][j].variable \notin VarsOf(cnf)
                 /\ transformed[i][j].variable \in IntroducedNames

\* C5: the padding method turns a clause longer than 3 into its first 3
\* literals in order, advances the fresh-name counter only for the clauses
\* shorter than 3, and returns as many clauses as it was given.
C5_PaddingTruncates ==
  (pc \in AfterTransform /\ method = "padding")
    => /\ Len(transformed) = Len(cnf)
       /\ \A i \in 1..Len(cnf) :
            Len(cnf[i]) > 3 => transformed[i] = <<cnf[i][1], cnf[i][2], cnf[i][3]>>
       /\ helperVarCount = 1 + MissingLiterals(cnf)
       /\ Cardinality(IntroducedNames) = MissingLiterals(cnf)

\* C5 witness: the padding method has run on a formula with a clause longer
\* than 3 whose fourth literal differs from its first three.
C5_Witness ==
  /\ pc = "render" /\ method = "padding"
  /\ \E i \in 1..Len(cnf) :
       /\ Len(cnf[i]) > 3
       /\ cnf[i][4] \notin {cnf[i][1], cnf[i][2], cnf[i][3]}

\* C6: parsing the rendering of a formula gives the formula back, for the
\* result of parseFormula on an accepted text and for the result of
\* transformTo3CNF on it.
C6_RoundTrip ==
  /\ pc \in AfterParse => parseFormula(formulaToString(cnf)) = cnf
  /\ pc \in {"lower", "done"} => reparsed = transformed

\* C6 witness: a transformed formula of several clauses with a negated
\* literal has been rendered and parsed again.
C6_Witness ==
  /\ pc = "lower"
  /\ Len(transformed) >= 2
  /\ \E i \in 1..Len(transformed) : \E j \in 1..Len(transformed[i]) : transformed[i][j].negated
  /\ reparsed = transformed

\* two connective symbols, of any kind, next to each other
Connectives == {AND, OR, NOT}
AdjacentConnectives(text) ==
  \E i \in 1..(Len(text) - 1) : text[i] \in Connectives /\ text[i + 1] \in Connectives

PassesEarlierChecks(text) ==
  ~emptyCheckFails(text) /\ ~parenCheckFails(text) /\ ~charCheckFails(text)

\* C7: a text that passes the first three checks and holds two adjacent
\* connective symbols (AND, OR or NOT, mixed pairs included) is rejected with
\* the consecutive-operators reason.
C7_AdjacentConnectivesRejected ==
  (pc # "validate" /\ PassesEarlierChecks(input) /\ AdjacentConnectives(input))
    => validation = ErrOperators

\* C8: the reason reported is that of the first failing check in the order
\* empty, parentheses, characters, operators, and the four reasons differ.
C8_FirstFailingCheckWins ==
  /\ Cardinality({ErrEmpty, ErrParens, ErrChars, ErrOperators, Valid}) = 5
  /\ pc # "validate" =>
       /\ emptyCheckFails(input) => validation = ErrEmpty
       /\ (~emptyCheckFails(input) /\ parenCheckFails(input)) => validation = ErrParens
       /\ (~emptyCheckFails(input) /\ ~parenCheckFails(input) /\ charCheckFails(input))
            => validation = ErrChars
       /\ (PassesEarlierChecks(input) /\ operatorCheckFails(input))
            => validation = ErrOperators
       /\ (PassesEarlierChecks(input) /\ ~operatorCheckFails(input))
            => validation = Valid

\* C8 witness: a non-empty text failing both the parenthesis and the
\* character check has been validated and got the parenthesis reason.
C8_Witness ==
  /\ pc = "rejected"
  /\ ~emptyCheckFails(input) /\ parenCheckFails(input) /\ charCheckFails(input)
  /\ validation = ErrParens

\* C9: every literal parsed from an accepted text has a non-empty variable
\* name of letters and digits only, negated exactly when its text starts
\* with NOT.
C9_ParsedNamesAreTokens ==
  pc \in AfterParse =>
    \A i \in 1..Len(cnf) : \A j \in 1..Len(cnf[i]) :
      LET lit == cnf[i][j] IN
      /\ lit.variable # <<>>
      /\ \A k \in 1..Len(lit.variable) : lit.variable[k] \in Letters \cup Digits
      /\ lit.negated = startsWith(literalToString(lit), NOT)

\* every clause has exactly 3 literals
IsThreeCNF(f) == \A i \in 1..Len(f) : Len(f[i]) = 3

\* C10: lowering a 3-CNF formula of k clauses gives exactly 3k vertices; the
\* vertex of position p of clause c carries that literal and the identifier
\* of (c, p), which no other vertex has.
C10_OneVertexPerOccurrence ==
  (pc = "done" /\ IsThreeCNF(transformed))
    => /\ Len(literals) = 3 * Len(transformed)
       /\ \A c \in 0..(Len(transformed) - 1) : \A p \in 0..2 :
            LET v == literals[3 * c + p + 1] IN
            /\ v.variable = transformed[c + 1][p + 1].variable
            /\ v.negated = transformed[c + 1][p + 1].negated
            /\ v.clauseIndex = c
            /\ v.id = vertexId(c, p)
       /\ \A a, b \in 1..Len(literals) : a # b => literals[a].id # literals[b].id

\* the stages at which the graph has been built
Lowered == {"done", "searched"}

\* the edge list holds an edge between the vertices of identifiers a and b
Joined(a, b) ==
  \E k \in 1..Len(edges) :
    \/ (edges[k].from = a /\ edges[k].to = b)
    \/ (edges[k].from = b /\ edges[k].to = a)

\* C11: the edge list holds exactly one undirected edge for each unordered
\* pair of vertices of different clauses whose literals are not complementary
\* (same variable, opposite negation), and nothing else: no self-edge, no
\* edge inside a clause, no pair twice.
C11_EdgesAreCompatiblePairs ==
  pc \in Lowered =>
    /\ \A a, b \in 1..Len(literals) :
         a < b =>
           (Joined(literals[a].id, literals[b].id)
              <=> /\ literals[a].clauseIndex # literals[b].clauseIndex
                  /\ ~(literals[a].variable = literals[b].variable
                         /\ literals[a].negated # literals[b].negated))
    /\ \A k \in 1..Len(edges) :
         \E a, b \in 1..Len(literals) :
           /\ a # b
           /\ literals[a].clauseIndex # literals[b].clauseIndex
           /\ edges[k].from = literals[a].id
           /\ edges[k].to = literals[b].id
    /\ \A k, m \in 1..Len(edges) :
         k < m => /\ edges[k] # edges[m]
                  /\ ~(edges[k].from = edges[m].to /\ edges[k].to = edges[m].from)

\* C11 witness: a graph has been built that has edges and also two vertices
\* of different clauses with complementary literals.
C11_Witness ==
  /\ pc = "done"
  /\ Len(edges) > 0
  /\ \E a, b \in 1..Len(literals) :
       /\ literals[a].clauseIndex # literals[b].clauseIndex
       /\ literals[a].variable = literals[b].variable
       /\ literals[a].negated # literals[b].negated
       /\ ~Joined(literals[a].id, literals[b].id)

\* the vertex that carries the identifier id
NodeOf(id) == literals[CHOOSE i \in 1..Len(literals) : literals[i].id = id]

\* C12: a returned witness has exactly k vertices for a graph of k clauses,
\* exactly one of each clause, and every two of them are joined by an edge.
C12_WitnessIsKClique ==
  (pc = "searched" /\ cliqueNodes # <<>>)
    => /\ Len(cliqueNodes) = Len(transformed)
       /\ \A c \in 0..(Len(transformed) - 1) :
            Cardinality({i \in 1..Len(cliqueNodes) : NodeOf(cliqueNodes[i]).clauseIndex = c}) = 1
       /\ \A i, j \in 1..Len(cliqueNodes) :
            i # j => Joined(cliqueNodes[i], cliqueNodes[j])

\* C13: when a witness is returned no two chosen literals are complementary,
\* every assignment that makes all chosen literals true satisfies every
\* clause of the formula the graph was lowered from, and that formula is
\* satisfiable.
C13_WitnessCertifiesSatisfiability ==
  (pc = "searched" /\ cliqueNodes # <<>>)
    => /\ \A i, j \in 1..Len(cliqueNodes) :
            ~(NodeOf(cliqueNodes[i]).variable = NodeOf(cliqueNodes[j]).variable
               /\ NodeOf(cliqueNodes[i]).negated # NodeOf(cliqueNodes[j]).negated)
       /\ \A trueVars \in SUBSET VarsOf(transformed) :
            (\A i \in 1..Len(cliqueNodes) : Holds(NodeOf(cliqueNodes[i]), trueVars))
              => \A c \in 1..Len(transformed) :
                   \E j \in 1..Len(transformed[c]) : Holds(transformed[c][j], trueVars)
       /\ Satisfiable(transformed)

\* the vertices of clause c of the graph, in literal-position order
GroupOf(c) == SelectSeq(literals, LAMBDA l : l.clauseIndex = c)

\* the choices of one literal position per clause of the lowered formula
\* whose vertices are pairwise joined by an edge
AdjacentSelections ==
  LET k == Len(transformed)
      groups == [c \in 0..(k - 1) |-> GroupOf(c)]
  IN {s \in [0..(k - 1) -> 1..3] :
        /\ \A c \in 0..(k - 1) : s[c] <= Len(groups[c])
        /\ \A c, d \in 0..(k - 1) :
             c < d => Joined(groups[c][s[c]].id, groups[d][s[d]].id)}

\* C14: for a graph of k >= 1 clauses, if some choice of one vertex per
\* clause is pairwise adjacent, findClique returns a witness and not the
\* empty result.
C14_ExistingCliqueIsFound ==
  (pc = "searched" /\ Len(transformed) >= 1 /\ AdjacentSelections # {})
    => cliqueNodes # <<>>

\* selection s comes before selection t when clauses are compared in clause
\* order and the vertices of a clause in literal-position order
LexLess(s, t) ==
  \E c \in DOMAIN s : s[c] < t[c] /\ \A d \in DOMAIN s : d < c => s[d] = t[d]

\* C15: a returned witness is the lexicographically smallest pairwise-adjacent
\* selection of one vertex per clause, listed in clause order.
C15_WitnessIsSmallestSelection ==
  (pc = "searched" /\ cliqueNodes # <<>>)
    => \E s \in AdjacentSelections :
         /\ \A t \in AdjacentSelections : t = s \/ LexLess(s, t)
         /\ cliqueNodes = [i \in 1..Len(transformed) |-> GroupOf(i - 1)[s[i - 1]].id]

\* C16: the methods 'split' (what the UI passes for gadget-construction) and
\* 'tseitin' return the same formula and the same trace of steps for every
\* input formula.
C16_SplitIsTseitin ==
  (pc \in AfterTransform /\ method \in {"split", "tseitin"})
    => LET other == IF method = "split" THEN "tseitin" ELSE "split"
           r == transformTo3CNF(cnf, other)
       IN transformed = r.formula /\ steps = r.steps

\* C16 witness: the split method has run, has changed the formula and has
\* recorded more than the opening and closing steps.
C16_Witness ==
  /\ pc = "render" /\ method = "split"
  /\ transformed # cnf
  /\ Len(steps) > 3
  /\ transformed = transformTo3CNF(cnf, "tseitin").formula

\* C17: the text (A|B)&(~C|D|E|F) is accepted, and the split method turns
\* its formula into exactly (A, B, v), (~C, D, h), (~h, E, F) for introduced
\* names h and v that differ and do not occur in the input.
C17_ScenarioA ==
  input = ScenarioAText =>
    /\ pc # "validate" => validation = Valid
    /\ (pc \in AfterTransform /\ method = "split") =>
         \E h, v \in IntroducedNames :
           /\ h # v
           /\ {h, v} \cap VarsOf(cnf) = {}
           /\ transformed =
                << <<Literal(<<"A">>, FALSE), Literal(<<"B">>, FALSE), Literal(v, FALSE)>>,
                   <<Literal(<<"C">>, TRUE), Literal(<<"D">>, FALSE), Literal(h, FALSE)>>,
                   <<Literal(h, TRUE), Literal(<<"E">>, FALSE), Literal(<<"F">>, FALSE)>> >>

\* C17 witness: the split method has run on the formula of that text.
C17_Witness ==
  /\ input = ScenarioAText
  /\ pc = "render" /\ method = "split"
  /\ validation = Valid
  /\ Len(cnf) = 2 /\ Len(transformed) = 3

\* C18: for the formula (A|B|X)&(~C|D|Y)&(~Y|E|F) the search returns a
\* witness of three vertices, exactly one of each clause, pairwise joined by
\* an edge and with no two literals complementary.
C18_ScenarioC ==
  (input = ScenarioCText /\ pc = "searched")
    => /\ Len(cliqueNodes) = 3
       /\ \A c \in 0..2 :
            Cardinality({i \in 1..Len(cliqueNodes) : NodeOf(cliqueNodes[i]).clauseIndex = c}) = 1
       /\ \A i, j \in 1..Len(cliqueNodes) :
            i # j =>
              /\ Joined(cliqueNodes[i], cliqueNodes[j])
              /\ ~(NodeOf(cliqueNodes[i]).variable = NodeOf(cliqueNodes[j]).variable
                     /\ NodeOf(cliqueNodes[i]).negated # NodeOf(cliqueNodes[j]).negated)

\* C18 witness: the graph of that formula, with its 9 vertices and the
\* complementary pair Y, ~Y left unjoined, has been searched.
C18_Witness ==
  /\ input = ScenarioCText
  /\ pc = "searched"
  /\ Len(literals) = 9
  /\ Len(edges) = 26
  /\ cliqueNodes # <<>>

\* the value of helperVarCount and the number of clauses already emitted
\* when the first loop reaches clause i of the input
BeforeClause(i) == splitAll(SubSeq(cnf, 1, i - 1), Acc(<<>>, <<>>, 1))

\* what the first loop does for clause i alone: the clauses it emits, the
\* steps it records
ChainOf(i) == splitClause(cnf[i], Acc(<<>>, <<>>, BeforeClause(i).count))

\* the helper names the steps of that chain announce
ChainHelpers(i) ==
  LET st == ChainOf(i).steps
  IN {AnnouncedName(st[k]) : k \in {n \in 1..Len(st) : Announces(st[n])}}

\* the chain of clause i stands in the returned formula, at the place the
\* first loop emitted it
ChainEmitted(i) ==
  LET offset == Len(BeforeClause(i).result)
      chain == ChainOf(i).result
  IN /\ offset + Len(chain) <= Len(transformed)
     /\ SubSeq(transformed, offset + 1, offset + Len(chain)) = chain

SatisfiedBy(clause, trueVars) == \E j \in 1..Len(clause) : Holds(clause[j], trueVars)

\* C19: for an input clause of more than 3 literals none of whose variables
\* is a helper name generated for it, an assignment to its variables
\* satisfies the clause if and only if some assignment to the helpers added
\* to it satisfies every clause the splitting loop emits for it.
C19_ChainEquivalence ==
  (pc \in AfterTransform /\ method \in {"split", "tseitin"})
    => \A i \in 1..Len(cnf) :
         (Len(cnf[i]) > 3 /\ ChainHelpers(i) \cap VarsOf(<<cnf[i]>>) = {})
           => /\ ChainEmitted(i)
              /\ \A trueVars \in SUBSET VarsOf(<<cnf[i]>>) :
                   SatisfiedBy(cnf[i], trueVars)
                     <=> \E helpers \in SUBSET ChainHelpers(i) :
                           \A c \in 1..Len(ChainOf(i).result) :
                             SatisfiedBy(ChainOf(i).result[c], trueVars \cup helpers)

\* C19 witness: the split method has run on a formula with a clause of more
\* than 3 literals, among them a negated one and two different variables,
\* that holds none of its helper names.
C19_Witness ==
  /\ pc = "render" /\ method = "split"
  /\ \E i \in 1..Len(cnf) :
       /\ Len(cnf[i]) > 3
       /\ ChainHelpers(i) # {}
       /\ ChainHelpers(i) \cap VarsOf(<<cnf[i]>>) = {}
       /\ Cardinality(VarsOf(<<cnf[i]>>)) >= 2
       /\ \E j \in 1..Len(cnf[i]) : cnf[i][j].negated

\* how often the variable name occurs in the clauses of f
Occurrences(name, f) ==
  Cardinality({<<c, j>> \in (1..Len(f)) \X (1..3) : j <= Len(f[c]) /\ f[c][j].variable = name})

\* C20: for an input clause of n > 3 literals the splitting loop emits n - 2
\* consecutive clauses with n - 3 helpers; each helper occurs exactly twice,
\* positive as third literal of one clause and negated as first literal of
\* the next; the original literals occur once each, in their order.
C20_ChainShape ==
  (pc \in AfterTransform /\ method \in {"split", "tseitin"})
    => \A i \in 1..Len(cnf) :
         Len(cnf[i]) > 3 =>
           LET n == Len(cnf[i])
               chain == ChainOf(i).result
           IN /\ Len(chain) = n - 2
              /\ ChainEmitted(i)
              /\ Cardinality(ChainHelpers(i)) = n - 3
              /\ \A h \in ChainHelpers(i) :
                   /\ Occurrences(h, chain) = 2
                   /\ \E c \in 1..(n - 3) :
                        /\ chain[c][3] = Literal(h, FALSE)
                        /\ chain[c + 1][1] = Literal(h, TRUE)
              /\ \A c \in 1..(n - 2) : Len(chain[c]) = 3
              /\ cnf[i] = <<chain[1][1], chain[1][2]>>
                            \o [c \in 1..(n - 4) |-> chain[c + 1][2]]
                            \o <<chain[n - 2][2], chain[n - 2][3]>>

\* the clauses the first loop of the tseitin/split branch leaves for the
\* second pass
FirstPass == splitAll(cnf, Acc(<<>>, <<>>, 1)).result

\* C21: the second pass of the splitting method turns a 1-literal clause [l]
\* into [l, v, ~v] and a 2-literal clause [l1, l2] into [l1, l2, v] for a
\* fresh variable v, leaves 3-literal clauses untouched and keeps the number
\* and the order of the clauses.
C21_SecondPassPads ==
  (pc \in AfterTransform /\ method \in {"split", "tseitin"})
    => /\ Len(transformed) = Len(FirstPass)
       /\ \A i \in 1..Len(FirstPass) :
            LET clause == FirstPass[i] IN
            /\ Len(clause) = 1 =>
                 \E v \in IntroducedNames \ VarsOf(FirstPass) :
                   transformed[i] = <<clause[1], Literal(v, FALSE), Literal(v, TRUE)>>
            /\ Len(clause) = 2 =>
                 \E v \in IntroducedNames \ VarsOf(FirstPass) :
                   transformed[i] = <<clause[1], clause[2], Literal(v, FALSE)>>
            /\ Len(clause) = 3 => transformed[i] = clause

\* the names generated during the call, in the order the trace reports them
GeneratedNames ==
  LET announcing == SelectSeq(steps, Announces)
  IN [k \in 1..Len(announcing) |-> AnnouncedName(announcing[k])]

\* C22: within one call the counter starts at 1 and goes up by one per
\* generated name, so the n-th generated name carries the number n and no
\* name is generated twice.
C22_GeneratedNamesDistinct ==
  pc \in AfterTransform =>
    /\ helperVarCount = 1 + Len(GeneratedNames)
    /\ \A n \in 1..Len(GeneratedNames) :
         \E prefix \in {"x", "y", "z", "p"} : GeneratedNames[n] = <<prefix>> \o ToDigits(n)
    /\ \A a, b \in 1..Len(GeneratedNames) : a # b => GeneratedNames[a] # GeneratedNames[b]

\* C22 witness: a call has generated at least three names, two of them with
\* the same prefix letter.
C22_Witness ==
  /\ pc = "render"
  /\ Len(GeneratedNames) >= 3
  /\ \E a, b \in 1..Len(GeneratedNames) :
       a # b /\ GeneratedNames[a][1] = GeneratedNames[b][1]

\* C23: after a call of transformTo3CNF with any method the clause arrays
\* passed in hold the same literals in the same order as before the call,
\* also where the returned formula holds a split, padded or truncated clause.
C23_InputNotModified ==
  pc \in AfterTransform =>
    /\ argument = cnf
    /\ heapTransformTo3CNF(cnf, method).formula = transformed

\* C23 witness: the padding method has run on a formula with a clause of 3
\* literals, which the result shares, and a shorter one, which it pads, and
\* the arrays passed in are as before.
C23_Witness ==
  /\ pc = "render" /\ method = "padding"
  /\ \E i \in 1..Len(cnf) : Len(cnf[i]) = 3
  /\ \E i \in 1..Len(cnf) : Len(cnf[i]) < 3
  /\ transformed # cnf
  /\ argument = cnf

\* C24: applying a method to its own result gives that result again, and a
\* formula whose clauses all have exactly 3 literals is returned unchanged
\* with no fresh variable introduced.
C24_Idempotent ==
  pc \in AfterTransform =>
    /\ transformTo3CNF(transformed, method).formula = transformed
    /\ transformTo3CNF(transformed, method).count = 1
    /\ IsThreeCNF(cnf) =>
         /\ transformed = cnf
         /\ IntroducedNames = {}
         /\ helperVarCount = 1

\* C24 witness: the split method has split a clause and padded another, so
\* that its result differs from its input, and gives the same result when
\* applied to it.
C24_Witness ==
  /\ pc = "render" /\ method = "split"
  /\ Len(transformed) > Len(cnf)
  /\ \E i \in 1..Len(cnf) : Len(cnf[i]) < 3
  /\ transformTo3CNF(transformed, method).formula = transformed

\* how many of the first k characters of text are ch
CountIn(text, k, ch) == Cardinality({i \in 1..k : text[i] = ch})

\* some prefix holds more ")" than "(", or the whole text holds different
\* numbers of them
Unbalanced(text) ==
  \/ \E k \in 1..Len(text) : CountIn(text, k, RPAREN) > CountIn(text, k, LPAREN)
  \/ CountIn(text, Len(text), RPAREN) # CountIn(text, Len(text), LPAREN)

\* C25: a non-empty text gets the unbalanced-parentheses reason exactly
\* when some prefix holds more ")" than "(" or the text holds different
\* numbers of "(" and ")".
C25_UnbalancedExactly ==
  (pc # "validate" /\ ~emptyCheckFails(input))
    => (validation = ErrParens <=> Unbalanced(input))

\* C25 witness: a text with as many "(" as ")" but a ")" too early has been
\* rejected for its parentheses.
C25_Witness ==
  /\ pc = "rejected"
  /\ validation = ErrParens
  /\ CountIn(input, Len(input), RPAREN) = CountIn(input, Len(input), LPAREN)
  /\ CountIn(input, Len(input), LPAREN) > 0

\* C26: a submit whose text validateFormula rejects shows the alert with
\* validation's reason, invokes no parser function but validateFormula, and
\* leaves the current step, the visibility of the panel, the text of the box
\* and the selected path as they were.
C26_RejectedSubmitChangesNothing ==
  [][(pendingSubmit.waiting /\ ~pendingSubmit'.waiting
        /\ validateFormula(pendingSubmit.text) # Valid)
       => /\ alertText' = ErrorAlert(validateFormula(pendingSubmit.text))
          /\ calls' = <<"validateFormula">>
          /\ currentStep' = currentStep
          /\ showCustomInput' = showCustomInput
          /\ customFormula' = customFormula
          /\ selectedPath' = selectedPath]_vars

\* C26 witness: a submit has been rejected for its characters while a later
\* step was shown and the panel was open.
C26_Witness ==
  /\ alertText = ErrorAlert(ErrChars)
  /\ calls = <<"validateFormula">>
  /\ ~pendingSubmit.waiting
  /\ currentStep > 0
  /\ showCustomInput

\* C27: once Reset was the last button pressed, no vertex and no edge is
\* shown and the clique is not highlighted, whatever callbacks run afterwards.
C27_ResetStaysCleared ==
  lastControl = "reset" =>
    /\ showVertices = 0
    /\ showEdges = 0
    /\ ~highlightClique

\* C28: the clique is highlighted only over all vertices and all edges, and
\* edges are shown only over all vertices.
C28_VerticesThenEdgesThenClique ==
  /\ highlightClique => (showVertices = Len(literals) /\ showEdges = Len(edges))
  /\ showEdges > 0 => showVertices = Len(literals)

\* C29: the step index is always one of the 5 steps; Start puts it at 0; a
\* timer tick before the last step advances it by exactly one and keeps
\* auto-play on, a tick at the last step turns auto-play off; and once the
\* user presses nothing more, auto-play that is on ends at the last step.
C29_AutoPlayTerminates ==
  /\ [](currentAnimationStep \in 0..(animationStepsLength - 1))
  /\ [][(~isAnimating /\ isAnimating') => currentAnimationStep' = 0]_vars
  /\ [][(userActions' = userActions) =>
          /\ isAnimating
          /\ IF currentAnimationStep < animationStepsLength - 1
             THEN currentAnimationStep' = currentAnimationStep + 1 /\ isAnimating'
             ELSE currentAnimationStep' = currentAnimationStep /\ ~isAnimating']_vars
  /\ (isAnimating /\ userActions = MaxUserActions)
        ~> (~isAnimating /\ currentAnimationStep = animationStepsLength - 1)

\* C29 witness: auto-play has run from Start to the last step by ticks alone
\* and has turned itself off.
C29_Witness ==
  /\ userActions = 1
  /\ ~isAnimating
  /\ currentAnimationStep = animationStepsLength - 1
  /\ showExamplePanel

\* the literal occurrences of a parsed formula, clause by clause
RECURSIVE ParserOccurrences(_, _)
ParserOccurrences(f, clauseIdx) ==
  IF f = <<>> THEN <<>>
  ELSE [j \in 1..Len(Head(f)) |->
          [clauseIndex |-> clauseIdx, variable |-> Head(f)[j].variable,
           negated |-> Head(f)[j].negated]]
       \o ParserOccurrences(Tail(f), clauseIdx + 1)

\* the vertices of the graph without their ids
GraphOccurrences(vertices) ==
  [k \in 1..Len(vertices) |->
     [clauseIndex |-> vertices[k].clauseIndex, variable |-> vertices[k].variable,
      negated |-> vertices[k].negated]]

\* C30: the vertices parseFormulaToGraph builds from a text are, in order,
\* the literal occurrences of parseFormula on the same text.
C30_GraphSeesParserLiterals ==
  pc \in AfterParse =>
    GraphOccurrences(parseFormulaToGraph(input).literals) = ParserOccurrences(cnf, 0)

====
